---- MODULE Spec2Model ----
(***************************************************************************)
(* A model of the SVG-path to G-code generator (genrate-gcode.py).         *)
(*                                                                         *)
(* Reals are fixed-point integers: a length is a whole number of 1/Res     *)
(* source units, an angle a whole number of degrees (Turn to the full      *)
(* turn), a sine or cosine a whole number of 1/TrigScale.  Formatting with *)
(* ":.3f" rounds a length to thousandths (Milli to the unit).              *)
(***************************************************************************)
EXTENDS Integers, Sequences, FiniteSets, TLC

\* ---------------------------------------------------------------- numbers

Milli == 1000
Res == 2 * Milli
TrigScale == 10 * Milli
HalfTurn == 180
Turn == 2 * HalfTurn
\* 2 * math.pi as the ratio TwoPiNum / TwoPiDen
TwoPiNum == 710
TwoPiDen == 113
DefaultNumSegments == 100
DefaultFeedrate == 100

IAbs(n) == IF n < 0 THEN -n ELSE n

\* a / b rounded to the nearest integer (b > 0), ties away from zero
RoundDiv(a, b) ==
    IF a >= 0 THEN (2 * a + b) \div (2 * b) ELSE -((2 * (-a) + b) \div (2 * b))

RECURSIVE SqrtSearch(_, _, _)
SqrtSearch(n, lo, hi) ==
    IF lo >= hi THEN lo
    ELSE LET mid == (lo + hi + 1) \div 2
         IN IF mid * mid <= n THEN SqrtSearch(n, mid, hi)
            ELSE SqrtSearch(n, lo, mid - 1)

\* the nearest integer to the square root of n
ISqrt(n) ==
    LET r == SqrtSearch(n, 0, 46340)
    IN IF r < 46340 /\ (r + 1) * (r + 1) - n < n - r * r THEN r + 1 ELSE r

\* sine of x degrees, 0 <= x <= HalfTurn, in 1/TrigScale
SinPos(x) ==
    LET p == x * (HalfTurn - x)
    IN (4 * TrigScale * p) \div ((5 * HalfTurn * HalfTurn) \div 4 - p)

Sin(a) ==
    LET m == a % Turn
    IN IF m <= HalfTurn THEN SinPos(m) ELSE -SinPos(m - HalfTurn)

Cos(a) == Sin(a + HalfTurn \div 2)

\* ---------------------------------------------------------------- complex

Complex(x, y) == [re |-> x, im |-> y]
CAdd(a, b) == [re |-> a.re + b.re, im |-> a.im + b.im]
CSub(a, b) == [re |-> a.re - b.re, im |-> a.im - b.im]
CScale(a, k) == [re |-> a.re * k, im |-> a.im * k]

\* abs(z)
CAbs(z) == ISqrt(z.re * z.re + z.im * z.im)

\* r * cmath.rect(1, theta)
Rect(r, theta) ==
    [re |-> RoundDiv(r * Cos(theta), TrigScale),
     im |-> RoundDiv(r * Sin(theta), TrigScale)]

RECURSIVE AngleSearch(_, _, _, _)
\* the least a in lo..hi with x * sin a >= y * cos a  (x, y >= 0)
AngleSearch(x, y, lo, hi) ==
    IF lo >= hi THEN lo
    ELSE LET mid == (lo + hi) \div 2
         IN IF x * Sin(mid) >= y * Cos(mid) THEN AngleSearch(x, y, lo, mid)
            ELSE AngleSearch(x, y, mid + 1, hi)

\* cmath.phase(z): the angle of z in (-HalfTurn, HalfTurn]
Phase(z) ==
    LET a == AngleSearch(IAbs(z.re), IAbs(z.im), 0, HalfTurn \div 2)
    IN IF z.im >= 0
       THEN (IF z.re >= 0 THEN a ELSE HalfTurn - a)
       ELSE (IF z.re >= 0 THEN -a ELSE a - HalfTurn)

\* f"{v:.3f}": v rounded to thousandths (ties to even)
Fmt3(v) ==
    LET n == IAbs(v) * Milli
        q == n \div Res
        r == n % Res
        up == IF 2 * r > Res \/ (2 * r = Res /\ q % 2 = 1) THEN q + 1 ELSE q
    IN IF v < 0 THEN -up ELSE up

\* ------------------------------------------------------------ output lines

UnitsLine == [cmd |-> "G21", x |-> 0, y |-> 0, d |-> 0]
FeedLine(feed) == [cmd |-> "G1 F", x |-> feed, y |-> 0, d |-> 0]
\* "G1 X.. Y.. Z0"
MoveLine(p) == [cmd |-> "G1", x |-> Fmt3(p.re), y |-> Fmt3(p.im), d |-> 0]
\* "G1 X.. Y.. Z0 ; Travel distance: .."
MoveLineDist(p, dist) ==
    [cmd |-> "G1 ;", x |-> Fmt3(p.re), y |-> Fmt3(p.im), d |-> Fmt3(dist)]

IsMotion(line) == line.cmd \in {"G1", "G1 ;"}

\* --------------------------------------------------------------- segments

\* A segment as the parser yields it.  kind is its class; start, end and
\* center are points; radius, rx, ry and len (the value of length()) are
\* lengths; closed is isclosed(); radii tells whether the object carries
\* the attributes rx and ry.
Point(x, y) == Complex(x * Res, y * Res)
Origin == Point(0, 0)

Seg(kind, start, end, center, radius, rx, ry, len, closed, radii) ==
    [kind |-> kind, start |-> start, end |-> end, center |-> center,
     radius |-> radius, rx |-> rx, ry |-> ry, len |-> len,
     closed |-> closed, radii |-> radii]

LineSeg(start, end) ==
    Seg("Line", start, end, Origin, 0, 0, 0, CAbs(CSub(end, start)), FALSE, FALSE)
ArcSeg(start, end, center, radius, len) ==
    Seg("Arc", start, end, center, radius, 0, 0, len, FALSE, FALSE)
CurveSeg(kind, start, end) ==
    Seg(kind, start, end, Origin, 0, 0, 0, CAbs(CSub(end, start)), FALSE, FALSE)
PathSeg(start, rx, ry, len, closed, radii) ==
    Seg("Path", start, start, Origin, 0, rx, ry, len, closed, radii)

\* segment.length()
Length(segment) == segment.len

\* ------------------------------------------------------------- flatteners
\* The parameter scale_factor of the three functions is written scale here:
\* scale_factor names the variable of the run's configuration below.

\* range(num_segments + 1) of the closed curves: the number of samples
ClosedRangeOpen(num_segments) == num_segments
ClosedRange(num_segments) == num_segments + 1

\* theta = 2 * math.pi * (i / num_segments)
ClosedTheta(i, num_segments) == RoundDiv(Turn * i, num_segments)

\* circle.length() * scale / (2 * math.pi)
CircleRadius(circle, scale) ==
    RoundDiv(IAbs(Length(circle)) * scale * TwoPiDen, TwoPiNum)

\* what one pass of a loop writes
StepLine(step) == MoveLineDist(step.point, step.distance)

\* one pass of the loop of circle_to_gcode
CircleStep(center, radius, num_segments, i) ==
    LET theta == ClosedTheta(i, num_segments)
        point == CAdd(center, Rect(radius, theta))
        distance == CAbs(CSub(point, center))
    IN [point |-> point, distance |-> distance]

RECURSIVE CircleTotal(_, _, _, _, _)
\* total_distance over the passes lo..hi
CircleTotal(center, radius, num_segments, lo, hi) ==
    IF lo > hi THEN 0
    ELSE IF lo = hi THEN CircleStep(center, radius, num_segments, lo).distance
    ELSE CircleTotal(center, radius, num_segments, lo, (lo + hi) \div 2)
         + CircleTotal(center, radius, num_segments, (lo + hi) \div 2 + 1, hi)

circle_to_gcode(circle, scale, num_segments) ==
    LET center == CScale(circle.start, scale)
        radius == CircleRadius(circle, scale)
    IN [gcode |-> [k \in 1..ClosedRange(num_segments) |->
                      StepLine(CircleStep(center, radius, num_segments, k - 1))],
        total_distance |->
            CircleTotal(center, radius, num_segments, 0, ClosedRange(num_segments) - 1)]

\* point = center + rx * cmath.rect(1, theta)
EllipsePointTrue(center, rx, ry, theta) ==
    CAdd(center, [re |-> Rect(rx, theta).re, im |-> Rect(ry, theta).im])
EllipsePoint(center, rx, ry, theta) == CAdd(center, Rect(rx, theta))

\* one pass of the loop of ellipse_to_gcode
EllipseStep(center, rx, ry, num_segments, i) ==
    LET theta == ClosedTheta(i, num_segments)
        point == EllipsePoint(center, rx, ry, theta)
        distance == CAbs(CSub(point, center))
    IN [point |-> point, distance |-> distance]

RECURSIVE EllipseTotal(_, _, _, _, _, _)
\* total_distance over the passes lo..hi
EllipseTotal(center, rx, ry, num_segments, lo, hi) ==
    IF lo > hi THEN 0
    ELSE IF lo = hi THEN EllipseStep(center, rx, ry, num_segments, lo).distance
    ELSE EllipseTotal(center, rx, ry, num_segments, lo, (lo + hi) \div 2)
         + EllipseTotal(center, rx, ry, num_segments, (lo + hi) \div 2 + 1, hi)

ellipse_to_gcode(ellipse, scale, num_segments) ==
    LET center == CScale(ellipse.start, scale)
        rx == IAbs(ellipse.rx * scale)
        ry == IAbs(ellipse.ry * scale)
    IN [gcode |-> [k \in 1..ClosedRange(num_segments) |->
                      StepLine(EllipseStep(center, rx, ry, num_segments, k - 1))],
        total_distance |->
            EllipseTotal(center, rx, ry, num_segments, 0, ClosedRange(num_segments) - 1)]

\* The angles of an arc: the two phases, the direction, the normalised
\* start and end and the angular span.
ArcAngles(arc, scale) ==
    LET start == CScale(arc.start, scale)
        end == CScale(arc.end, scale)
        center == CScale(arc.center, scale)
        phase_start == Phase(CSub(start, center))
        phase_end == Phase(CSub(end, center))
        angle_diff == phase_end - phase_start
        direction == IF angle_diff < 0 THEN "CW" ELSE "CCW"
        angle_start == IF direction = "CW" THEN phase_start + Turn ELSE phase_start
        angle_end == IF direction = "CW" THEN phase_end + Turn ELSE phase_end
        theta_diff == IF direction = "CW" THEN -(angle_end - angle_start)
                      ELSE angle_end - angle_start
    IN [phase_start |-> phase_start, phase_end |-> phase_end,
        direction |-> direction, angle_start |-> angle_start,
        angle_end |-> angle_end, theta_diff |-> theta_diff]

\* angle_start + i * theta_diff / num_segments
ArcTheta(angle_start, theta_diff, i, num_segments) ==
    angle_start + RoundDiv(i * theta_diff, num_segments)

\* the point of a pair that the loop writes
ArcEmittedFirst(point1, point2) == point1
ArcEmitted(point1, point2) == point2

\* one pass of the loop of arc_to_gcode
ArcStep(center, radius, angle_start, theta_diff, num_segments, i) ==
    LET theta1 == ArcTheta(angle_start, theta_diff, i, num_segments)
        theta2 == ArcTheta(angle_start, theta_diff, i + 1, num_segments)
        point1 == CAdd(center, Rect(radius, theta1))
        point2 == CAdd(center, Rect(radius, theta2))
        distance == CAbs(CSub(point2, point1))
    IN [point |-> ArcEmitted(point1, point2), distance |-> distance]

RECURSIVE ArcTotal(_, _, _, _, _, _, _)
\* total_distance over the passes lo..hi
ArcTotal(center, radius, angle_start, theta_diff, num_segments, lo, hi) ==
    IF lo > hi THEN 0
    ELSE IF lo = hi
    THEN ArcStep(center, radius, angle_start, theta_diff, num_segments, lo).distance
    ELSE ArcTotal(center, radius, angle_start, theta_diff, num_segments,
                  lo, (lo + hi) \div 2)
         + ArcTotal(center, radius, angle_start, theta_diff, num_segments,
                    (lo + hi) \div 2 + 1, hi)

\* the loop of arc_to_gcode, with the angles computed before it
ArcLoop(center, radius, angle_start, theta_diff, num_segments) ==
    [gcode |-> [k \in 1..num_segments |->
                   StepLine(ArcStep(center, radius, angle_start, theta_diff,
                                    num_segments, k - 1))],
     total_distance |->
         ArcTotal(center, radius, angle_start, theta_diff, num_segments,
                  0, num_segments - 1)]

arc_to_gcode(arc, scale, num_segments) ==
    ArcLoop(CScale(arc.center, scale), IAbs(arc.radius * scale),
            ArcAngles(arc, scale).angle_start,
            ArcAngles(arc, scale).theta_diff, num_segments)

\* ------------------------------------------------------------- dispatcher

\* 1e-6 as 1 / ToleranceDen
ToleranceDen == 1000000

\* segment.length() == 0
IsZeroLengthNever(segment) == FALSE
IsZeroLength(segment) == Length(segment) = 0

\* abs(segment.rx - segment.ry) < 1e-6
RadiiEqual(segment) == IAbs(segment.rx - segment.ry) * (ToleranceDen \div Res) < 1

\* the branch of the if / elif chain that a segment takes
ClassifyCubicAsLine(segment) ==
    IF segment.kind \in {"Line", "CubicBezier"} THEN "line"
    ELSE IF segment.kind = "Arc" THEN "arc"
    ELSE IF segment.kind = "QuadraticBezier" THEN "quadratic"
    ELSE IF segment.kind = "Path" /\ segment.closed THEN "closed"
    ELSE "none"
Classify(segment) ==
    IF segment.kind = "Line" THEN "line"
    ELSE IF segment.kind = "Arc" THEN "arc"
    ELSE IF segment.kind = "QuadraticBezier" THEN "quadratic"
    ELSE IF segment.kind = "Path" /\ segment.closed THEN "closed"
    ELSE "none"

\* the two lines of a Line segment
LineGcodeWithFeed(segment, scale, off) ==
    <<FeedLine(DefaultFeedrate),
      MoveLine(CAdd(CScale(segment.start, scale), off)),
      MoveLine(CAdd(CScale(segment.end, scale), off))>>
LineGcode(segment, scale, off) ==
    LET start == CAdd(CScale(segment.start, scale), off)
        end == CAdd(CScale(segment.end, scale), off)
    IN <<MoveLine(start), MoveLine(end)>>

\* the text of a closed path (its radii present)
ClosedGcode(segment, scale) ==
    IF RadiiEqual(segment)
    THEN circle_to_gcode(segment, scale, DefaultNumSegments).gcode
    ELSE ellipse_to_gcode(segment, scale, DefaultNumSegments).gcode

\* every line the loop body writes for a segment whose length is not zero
SegmentGcode(segment, scale, off) ==
    CASE Classify(segment) = "line" -> LineGcode(segment, scale, off)
      [] Classify(segment) = "arc" ->
            arc_to_gcode(segment, scale, DefaultNumSegments).gcode
      [] Classify(segment) = "closed" -> ClosedGcode(segment, scale)
      [] OTHER -> <<>>

\* f.write(data)
WritePrepend(buf, data) == data \o buf
Write(buf, data) == buf \o data

\* leaving the with block, normally or by an exception
LeaveOpen(sink) == sink
ExitWith(sink) == "closed"

\* ------------------------------------------------------------------ state

VARIABLES
    paths,          \* svg2paths(svg_file): the list of paths
    scale_factor,   \* run configuration
    offset,
    feedrate,
    pc,             \* where the run is
    pi,             \* index of the path being iterated
    si,             \* index of the segment being iterated
    f,              \* the output file: "unopened", "open" or "closed"
    opens,          \* how many times the file was opened
    out,            \* the lines of the output file
    origin,         \* for each write, <<pi, si>> of its segment and its lines
    call,           \* a direct call of a flattener: function and arguments
    ret             \* what the direct call returned

vars == <<paths, scale_factor, offset, feedrate, pc, pi, si, f, opens, out,
          origin, call, ret>>

NoCall == [fn |-> "none"]
NoRet == [gcode |-> <<>>, total_distance |-> -1]

\* ----------------------------------------------------------------- inputs

MaxPaths == 2
MaxSegments == 2
MaxNumSegments == 4

\* the twelve whole-numbered points of the circle of radius 5 about 0
Ring5 ==
    {Point(5, 0), Point(4, 3), Point(3, 4), Point(0, 5), Point(-3, 4),
     Point(-4, 3), Point(-5, 0), Point(-4, -3), Point(-3, -4), Point(0, -5),
     Point(3, -4), Point(4, -3)}

\* the length of the circle of radius r
Circumference(r) == RoundDiv(r * Res * TwoPiNum, TwoPiDen)

SegmentUniverse ==
    {LineSeg(Origin, Point(10, 0)),
     LineSeg(Point(3, 4), Point(3, 4)),
     ArcSeg(Point(5, 0), Point(0, 5), Origin, 5 * Res, Circumference(5) \div 4),
     ArcSeg(Point(5, 0), Point(5, 0), Origin, 5 * Res, 0),
     CurveSeg("QuadraticBezier", Origin, Point(2, 2)),
     CurveSeg("CubicBezier", Origin, Point(4, 1)),
     PathSeg(Point(2, 1), 5 * Res, 5 * Res, Circumference(5), TRUE, TRUE),
     PathSeg(Point(2, 1), 5 * Res, 2 * Res, Circumference(4), TRUE, TRUE),
     PathSeg(Point(2, 1), 5 * Res, 5 * Res, Circumference(5), FALSE, TRUE),
     PathSeg(Point(2, 1), 0, 0, Circumference(5), TRUE, FALSE)}

SeqsUpTo(S, n) == UNION {[1..k -> S] : k \in 0..n}

RECURSIVE SumTo(_, _)
SumTo(lens, k) == IF k = 0 THEN 0 ELSE lens[k] + SumTo(lens, k - 1)

\* flat cut into paths of the lengths lens
Split(flat, lens) ==
    [k \in 1..Len(lens) |->
        SubSeq(flat, SumTo(lens, k - 1) + 1, SumTo(lens, k))]

\* the lists of at most MaxPaths paths, none of them empty, of at most
\* MaxSegments segments in all; and the list of one empty path
PathLists ==
    {Split(flat, lens) :
        <<flat, lens>> \in
            {fl \in SeqsUpTo(SegmentUniverse, MaxSegments) \X SeqsUpTo(1..MaxSegments, MaxPaths) :
                SumTo(fl[2], Len(fl[2])) = Len(fl[1])}}
    \cup {<< <<>> >>}

Configs ==
    {[scale_factor |-> 1, offset |-> Origin, feedrate |-> DefaultFeedrate],
     [scale_factor |-> 2, offset |-> Point(10, 10), feedrate |-> 250]}

\* ------------------------------------------------------------- the driver

Init ==
    /\ paths \in PathLists
    /\ \E c \in Configs :
          /\ scale_factor = c.scale_factor
          /\ offset = c.offset
          /\ feedrate = c.feedrate
    /\ pc = "start"
    /\ pi = 0
    /\ si = 0
    /\ f = "unopened"
    /\ opens = 0
    /\ out = <<>>
    /\ origin = <<>>
    /\ call = NoCall
    /\ ret = NoRet

Inputs == <<paths, scale_factor, offset, feedrate, call, ret>>

\* an exception leaves the with block: the file is closed, the run is over
Raise ==
    /\ f' = ExitWith(f)
    /\ pc' = "failed"
    /\ UNCHANGED <<pi, si, opens, out, origin>>

\* paths, _ = svg2paths(svg_file)
Parse ==
    /\ pc = "start"
    /\ \E ok \in BOOLEAN : pc' = IF ok THEN "parsed" ELSE "failed"
    /\ UNCHANGED <<pi, si, f, opens, out, origin, Inputs>>

\* with open(gcode_file, 'w') as f
Open ==
    /\ pc = "parsed"
    /\ \E ok \in BOOLEAN :
          IF ok
          THEN /\ f' = "open"
               /\ opens' = opens + 1
               /\ out' = <<>>
               /\ origin' = <<>>
               /\ pc' = "units"
          ELSE /\ pc' = "failed"
               /\ UNCHANGED <<f, opens, out, origin>>
    /\ UNCHANGED <<pi, si, Inputs>>

\* one f.write(data) of the lines data, all tagged tag; then control goes to
\* next with the loop indices npi, nsi.  The write may raise.
WriteThen(data, tag, next, npi, nsi) ==
    \E ok \in BOOLEAN :
        IF ok
        THEN /\ out' = Write(out, data)
             /\ origin' = Write(origin, <<[seg |-> tag, n |-> Len(data)]>>)
             /\ pc' = next
             /\ pi' = npi
             /\ si' = nsi
             /\ UNCHANGED <<f, opens>>
        ELSE Raise

\* f.write("G21 ; Set units to millimeters\n")
WriteUnits ==
    /\ pc = "units"
    /\ WriteThen(<<UnitsLine>>, <<0, 0>>, "feedrate", pi, si)
    /\ UNCHANGED Inputs

\* f.write(f"G1 F{feedrate} ; Set feedrate\n")
WriteFeedrate ==
    /\ pc = "feedrate"
    /\ WriteThen(<<FeedLine(feedrate)>>, <<0, 0>>, "loop", 1, 1)
    /\ UNCHANGED Inputs

InPath == pc = "loop" /\ pi <= Len(paths)
AtSegment == InPath /\ si <= Len(paths[pi])
Cur == paths[pi][si]

\* for path in paths: the segments of this path are exhausted
NextPath ==
    /\ InPath
    /\ si > Len(paths[pi])
    /\ pi' = pi + 1
    /\ si' = 1
    /\ UNCHANGED <<pc, f, opens, out, origin, Inputs>>

\* if segment.length() == 0: continue
SkipZeroLength ==
    /\ AtSegment
    /\ IsZeroLength(Cur)
    /\ si' = si + 1
    /\ UNCHANGED <<pc, pi, f, opens, out, origin, Inputs>>

\* isinstance(segment, Line): two writes, each of which may raise
ConvertLine ==
    /\ AtSegment
    /\ ~IsZeroLength(Cur)
    /\ Classify(Cur) = "line"
    /\ LET gcode == SegmentGcode(Cur, scale_factor, offset)
       IN \/ WriteThen(gcode, <<pi, si>>, "loop", pi, si + 1)
          \/ /\ out' = Write(out, SubSeq(gcode, 1, 1))
             /\ origin' = Write(origin, <<[seg |-> <<pi, si>>, n |-> 1]>>)
             /\ f' = ExitWith(f)
             /\ pc' = "failed"
             /\ UNCHANGED <<pi, si, opens>>
    /\ UNCHANGED Inputs

\* isinstance(segment, Arc)
ConvertArc ==
    /\ AtSegment
    /\ ~IsZeroLength(Cur)
    /\ Classify(Cur) = "arc"
    /\ WriteThen(SegmentGcode(Cur, scale_factor, offset), <<pi, si>>, "loop", pi, si + 1)
    /\ UNCHANGED Inputs

\* isinstance(segment, QuadraticBezier): pass
PassQuadratic ==
    /\ AtSegment
    /\ ~IsZeroLength(Cur)
    /\ Classify(Cur) = "quadratic"
    /\ si' = si + 1
    /\ UNCHANGED <<pc, pi, f, opens, out, origin, Inputs>>

\* isinstance(segment, Path) and segment.isclosed(): reading segment.rx of
\* an object without that attribute raises
ConvertClosed ==
    /\ AtSegment
    /\ ~IsZeroLength(Cur)
    /\ Classify(Cur) = "closed"
    /\ IF Cur.radii
       THEN WriteThen(SegmentGcode(Cur, scale_factor, offset), <<pi, si>>, "loop", pi, si + 1)
       ELSE Raise
    /\ UNCHANGED Inputs

\* no branch of the chain matches
FallThrough ==
    /\ AtSegment
    /\ ~IsZeroLength(Cur)
    /\ Classify(Cur) = "none"
    /\ si' = si + 1
    /\ UNCHANGED <<pc, pi, f, opens, out, origin, Inputs>>

\* the loops end: the with block is left
Close ==
    /\ pc = "loop"
    /\ pi > Len(paths)
    /\ f' = ExitWith(f)
    /\ pc' = "done"
    /\ UNCHANGED <<pi, si, opens, out, origin, Inputs>>

Next ==
    \/ Parse
    \/ Open
    \/ WriteUnits
    \/ WriteFeedrate
    \/ NextPath
    \/ SkipZeroLength
    \/ ConvertLine
    \/ ConvertArc
    \/ PassQuadratic
    \/ ConvertClosed
    \/ FallThrough
    \/ Close

Spec == Init /\ [][Next]_vars

\* ------------------------------------------- direct calls of the flatteners

ScaleSet == {c.scale_factor : c \in Configs}
Centers == {Origin, Point(1, 2)}
RadiusSet == {1, 2, 5}

ArcCalls ==
    {[fn |-> "arc_to_gcode",
      arg |-> ArcSeg(CAdd(c, s), CAdd(c, e), c, 5 * Res, Circumference(5) \div 4),
      scale_factor |-> k, num_segments |-> n] :
        c \in Centers, s \in Ring5, e \in Ring5, k \in ScaleSet, n \in 1..MaxNumSegments}

CircleCalls ==
    {[fn |-> "circle_to_gcode",
      arg |-> PathSeg(c, r * Res, r * Res, Circumference(r), TRUE, TRUE),
      scale_factor |-> k, num_segments |-> n] :
        c \in Centers, r \in RadiusSet, k \in ScaleSet, n \in 1..MaxNumSegments}

EllipseCalls ==
    {[fn |-> "ellipse_to_gcode",
      arg |-> PathSeg(c, rx * Res, ry * Res, Circumference(rx), TRUE, TRUE),
      scale_factor |-> k, num_segments |-> n] :
        c \in Centers, rx \in {-2, 5}, ry \in RadiusSet, k \in ScaleSet,
        n \in 1..MaxNumSegments}

FlatInit ==
    /\ call \in ArcCalls \cup CircleCalls \cup EllipseCalls
    /\ ret = NoRet
    /\ pc = "call"
    /\ paths = <<>>
    /\ scale_factor = 1
    /\ offset = Origin
    /\ feedrate = DefaultFeedrate
    /\ pi = 0
    /\ si = 0
    /\ f = "unopened"
    /\ opens = 0
    /\ out = <<>>
    /\ origin = <<>>

Driver == <<paths, scale_factor, offset, feedrate, pi, si, f, opens, out, origin>>

CallArc ==
    /\ pc = "call"
    /\ call.fn = "arc_to_gcode"
    /\ ret' = arc_to_gcode(call.arg, call.scale_factor, call.num_segments)
    /\ pc' = "returned"
    /\ UNCHANGED <<call, Driver>>

CallCircle ==
    /\ pc = "call"
    /\ call.fn = "circle_to_gcode"
    /\ ret' = circle_to_gcode(call.arg, call.scale_factor, call.num_segments)
    /\ pc' = "returned"
    /\ UNCHANGED <<call, Driver>>

CallEllipse ==
    /\ pc = "call"
    /\ call.fn = "ellipse_to_gcode"
    /\ ret' = ellipse_to_gcode(call.arg, call.scale_factor, call.num_segments)
    /\ pc' = "returned"
    /\ UNCHANGED <<call, Driver>>

FlatNext ==
    \/ CallArc
    \/ CallCircle
    \/ CallEllipse

SpecFlat == FlatInit /\ [][FlatNext]_vars

\* ------------------------------------------------- claims on the flatteners

Returned(fn) == pc = "returned" /\ call.fn = fn

\* what a returned line says of its point
LinePoint(line) == <<line.x, line.y>>
\* the point p as a line prints it
Printed(p) == <<Fmt3(p.re), Fmt3(p.im)>>

CallCenter == CScale(call.arg.center, call.scale_factor)
CallRadius == IAbs(call.arg.radius * call.scale_factor)
CallAngles == ArcAngles(call.arg, call.scale_factor)

\* the angle of the arc's sample at step i
SampleAngle(i) ==
    ArcTheta(CallAngles.angle_start, CallAngles.theta_diff, i, call.num_segments)
\* the arc's sample at step i
Sample(i) == CAdd(CallCenter, Rect(CallRadius, SampleAngle(i)))

\* C4: an arc whose angle_end - angle_start is negative (CW) is traversed
\* clockwise: the sample angle decreases from step to step, and the last
\* step reaches the end angle, so the last point written is the point of
\* the circle at the arc's end angle.
C4_ClockwiseReachesEnd ==
    (Returned("arc_to_gcode") /\ CallAngles.direction = "CW") =>
        /\ \A i \in 1..call.num_segments : SampleAngle(i) < SampleAngle(i - 1)
        /\ (SampleAngle(call.num_segments) - CallAngles.phase_end) % Turn = 0
        /\ LinePoint(ret.gcode[call.num_segments]) =
              Printed(CAdd(CallCenter, Rect(CallRadius, CallAngles.phase_end)))

\* C6: arc_to_gcode with num_segments = N >= 1 returns exactly N lines, the
\* k-th of them the sample at step k (k = 1..N); the sample at step 0 takes
\* no place among them.
C6_ArcEmitsSecondPoints ==
    Returned("arc_to_gcode") =>
        /\ Len(ret.gcode) = call.num_segments
        /\ \A k \in 1..call.num_segments :
              LinePoint(ret.gcode[k]) = Printed(Sample(k))

C6_Witness ==
    /\ Returned("arc_to_gcode")
    /\ call.num_segments >= 3
    /\ Printed(Sample(0)) # Printed(Sample(1))
    /\ Printed(Sample(0)) # Printed(Sample(call.num_segments))

\* the sample of the closed curve of radius r at step i
ClosedSample(r, i) ==
    CAdd(CScale(call.arg.start, call.scale_factor),
         Rect(r, ClosedTheta(i, call.num_segments)))

\* C7: circle_to_gcode with num_segments = N >= 1 returns exactly N + 1
\* lines, the samples i = 0..N at the angle of i N-ths of a turn, and the
\* first and the last of them are the same point.
C7_CircleCloses ==
    Returned("circle_to_gcode") =>
        /\ Len(ret.gcode) = call.num_segments + 1
        /\ \A k \in 1..Len(ret.gcode) :
              LinePoint(ret.gcode[k]) =
                  Printed(ClosedSample(CircleRadius(call.arg, call.scale_factor), k - 1))
        /\ LinePoint(ret.gcode[1]) = LinePoint(ret.gcode[Len(ret.gcode)])

C7_Witness ==
    /\ Returned("circle_to_gcode")
    /\ call.num_segments >= 3
    /\ Len(ret.gcode) = call.num_segments + 1
    /\ LinePoint(ret.gcode[1]) # LinePoint(ret.gcode[2])

\* C10: ry has no effect on ellipse_to_gcode: the call with any other ry,
\* all else the same, returns the same lines and the same total distance.
C10_RyIgnored ==
    Returned("ellipse_to_gcode") =>
        \A ry \in RadiusSet :
            ellipse_to_gcode([call.arg EXCEPT !.ry = ry * Res],
                             call.scale_factor, call.num_segments) = ret

C10_Witness ==
    /\ Returned("ellipse_to_gcode")
    /\ IAbs(call.arg.rx) # IAbs(call.arg.ry)
    /\ call.num_segments >= 3
    /\ Len(ret.gcode) = call.num_segments + 1

\* ---------------------------------------------------- claims on the driver

OffsetSet == {c.offset : c \in Configs}

\* SegmentGcode of every segment and configuration of the inputs
GcodeTable ==
    {<<segment, scale, off, SegmentGcode(segment, scale, off)>> :
        segment \in SegmentUniverse, scale \in ScaleSet, off \in OffsetSet \cup {Origin}}

GcodeOf(segment, scale, off) ==
    (CHOOSE row \in GcodeTable :
        row[1] = segment /\ row[2] = scale /\ row[3] = off)[4]

RECURSIVE Flatten(_)
\* the segments of a list of paths, in the parser's order
Flatten(ps) == IF ps = <<>> THEN <<>> ELSE Head(ps) \o Flatten(Tail(ps))

Header == <<UnitsLine, FeedLine(feedrate)>>

\* the lines of out that the first k writes wrote
RECURSIVE Written(_)
Written(k) == IF k = 0 THEN 0 ELSE Written(k - 1) + origin[k].n
Chunk(k) == SubSeq(out, Written(k - 1) + 1, Written(k))

TagLess(a, b) == a[1] < b[1] \/ (a[1] = b[1] /\ a[2] < b[2])

\* C1: the units line and the feedrate line are written once each, in
\* that order, before every motion line: the units line is the first line
\* of the file and no other, the feedrate line the second and no other,
\* and both are there once the loop over the segments is reached.
C1_HeaderOnceFirst ==
    /\ \A i \in 1..Len(out) :
          /\ (out[i].cmd = "G21") <=> (i = 1)
          /\ (out[i].cmd = "G1 F") <=> (i = 2)
          /\ IsMotion(out[i]) <=> (i > 2)
    /\ pc \in {"loop", "done"} => (Len(out) >= 2 /\ SubSeq(out, 1, 2) = Header)

C1_Witness ==
    /\ pc = "done"
    /\ Len(origin) >= 4
    /\ \E i, j \in 3..Len(out) : out[i].cmd = "G1" /\ out[j].cmd = "G1 ;"

\* C2: the lines are written in the parser's order and those of one
\* segment are contiguous: the writes follow the order of the segments
\* (path, then segment in the path), no segment is written twice, and the
\* lines of each write are lines of its segment, in a row in the file.
C2_ParserOrder ==
    /\ Written(Len(origin)) = Len(out)
    /\ \A i, j \in 1..Len(origin) :
          (i < j /\ origin[j].seg # <<0, 0>>) => TagLess(origin[i].seg, origin[j].seg)
    /\ \A k \in 1..Len(origin) :
          origin[k].seg # <<0, 0>> =>
              Chunk(k) = SubSeq(GcodeOf(paths[origin[k].seg[1]][origin[k].seg[2]],
                                        scale_factor, offset), 1, origin[k].n)

C2_Witness ==
    /\ pc = "done"
    /\ \E i, j \in 1..Len(origin) :
          /\ i < j
          /\ origin[i].seg[1] = 1
          /\ origin[j].seg[1] = 2
          /\ origin[i].n > 2

RECURSIVE ConcatGcode(_, _, _)
\* the lines of the segments segs, one segment after the other
ConcatGcode(segs, scale, off) ==
    IF segs = <<>> THEN <<>>
    ELSE GcodeOf(Head(segs), scale, off) \o ConcatGcode(Tail(segs), scale, off)

\* segs without its segments of length zero
NonZero(segs) == SelectSeq(segs, LAMBDA g : Length(g) # 0)

\* C5: segments of length zero contribute no line: the file of a finished
\* run is the file of the run on the same paths with every segment of
\* length zero removed.
C5_ZeroLengthNoOutput ==
    pc = "done" =>
        out = Header \o ConcatGcode(NonZero(Flatten(paths)), scale_factor, offset)

C5_Witness ==
    /\ pc = "done"
    /\ \E p \in 1..Len(paths) : \E a, b \in 1..Len(paths[p]) :
          /\ a < b
          /\ Length(paths[p][a]) = 0
          /\ paths[p][a].kind = "Arc"
          /\ Length(paths[p][b]) # 0
          /\ paths[p][b].kind = "Line"
    /\ Len(out) = 4

\* a kind of segment that no branch of the chain converts
Unsupported(segment) ==
    \/ segment.kind \in {"QuadraticBezier", "CubicBezier"}
    \/ segment.kind = "Path" /\ ~segment.closed

\* segs without its unsupported segments
Supported(segs) == SelectSeq(segs, LAMBDA g : ~Unsupported(g))

\* C8: a segment of an unsupported kind and of length not zero writes
\* nothing and raises nothing: the step that meets it leaves the file as it
\* is, open, and goes on to the next segment; and the file of a finished
\* run holds the lines of all the other segments, in order.
C8_UnsupportedSilent ==
    /\ [][(AtSegment /\ Length(Cur) # 0 /\ Unsupported(Cur)) =>
              /\ out' = out
              /\ f' = "open"
              /\ pc' = "loop"
              /\ pi' = pi
              /\ si' = si + 1]_vars
    /\ [](pc = "done" =>
              out = Header \o ConcatGcode(Supported(NonZero(Flatten(paths))),
                                          scale_factor, offset))

C8_Witness ==
    /\ pc = "done"
    /\ \E p \in 1..Len(paths) : \E a, b \in 1..Len(paths[p]) :
          /\ a < b
          /\ Unsupported(paths[p][a])
          /\ Length(paths[p][a]) # 0
          /\ paths[p][b].kind = "Line"
          /\ Length(paths[p][b]) # 0
    /\ Len(out) = 4

\* C9: the file is opened at most once and never left open: it is closed
\* when the run is done and when the run has failed, whether a write or the
\* conversion of a segment raised.
C9_SinkClosed ==
    /\ opens <= 1
    /\ (f # "unopened") => opens = 1
    /\ pc \in {"done", "failed"} => f # "open"

\* the run failed converting a closed path that has no radii
C9_Witness ==
    /\ pc = "failed"
    /\ opens = 1
    /\ f = "closed"
    /\ Len(out) > 2
    /\ pi \in 1..Len(paths)
    /\ si \in 1..Len(paths[pi])
    /\ paths[pi][si].kind = "Path"
    /\ ~paths[pi][si].radii

\* the line moved by the offset off
Shifted(line, off) ==
    [line EXCEPT !.x = @ + Fmt3(off.re), !.y = @ + Fmt3(off.im)]

RECURSIVE ConcatTransformed(_, _, _)
\* the lines of the segments segs: the scaled geometry, moved by off
ConcatTransformed(segs, scale, off) ==
    IF segs = <<>> THEN <<>>
    ELSE LET gcode == GcodeOf(Head(segs), scale, Origin)
         IN [k \in 1..Len(gcode) |-> Shifted(gcode[k], off)]
            \o ConcatTransformed(Tail(segs), scale, off)

\* C3: coordinate * scale + offset is applied to every point written: the
\* file of a finished run holds, for every segment of length not zero and
\* of every kind, the points of its scaled geometry moved by the offset.
C3_TransformEverywhere ==
    pc = "done" =>
        out = Header \o ConcatTransformed(NonZero(Flatten(paths)), scale_factor, offset)

====
